---- MODULE Spec2Model ----
(***************************************************************************)
(* Model of ecommerce/decorators.py: the `overridable` decorator, which    *)
(* picks at call time, among the identically named functions exposed by    *)
(* the classes of the instance's MRO, the one decorated with 'overrides'   *)
(* that has the highest priority, and memoizes the choice in               *)
(* func.handler_cache under hash(mro + (func.__name__,)).                  *)
(*                                                                         *)
(* Model of the users application built on it: GenericBaseView             *)
(* (ecommerce/utilities/view_mixins.py), the access_permissions decorator, *)
(* and the views, serializers and tables of users/ that invite, activate   *)
(* and deactivate users and reset their passwords.                         *)
(***************************************************************************)
EXTENDS Integers, Sequences, FiniteSets, TLC

----------------------------------------------------------------------------
(* Bounds of the model *)

\* largest explicit 'priority' attribute a function carries (the least is -1)
MaxPrio == 2
\* number of wrapper calls explored in one behaviour
MaxCalls == 2
\* width, in bits, of the modelled hash() values (64 in CPython)
HashBits == 5
\* class-body changes (setattr/delattr on a class) explored in one behaviour
MaxSetAttrs == 1
\* threads calling the wrapper, or serving requests, concurrently
NumThreads == 2
\* requests explored in one behaviour
MaxRequests == 3

----------------------------------------------------------------------------
(* The classes and their method resolution orders *)

\* None where a function is expected, and where a class is expected
None == <<>>
NoClass == "None"
\* a function object without a 'priority' attribute
NoPrio == <<>>

\* the operation names: functions decorated with @overridable on the base view
Names == {"get_serializer_context", "update_permission_classes"}

\* Base declares the overridable functions; A, B, C are mixins that may declare
\* identically named functions; A2 subclasses A without a body of its own;
\* V1, V2 compose Base with the mixins in two orders; Lone has no such method.
Classes == {"object", "Base", "A", "A2", "B", "C", "V1", "V2", "Lone"}
Mixins == {"A", "B", "C"}
InstanceClasses == {"V1", "V2", "Lone"}

\* instance.__class__.__mro__
mro(c) ==
    CASE c = "object" -> <<"object">>
      [] c = "Base"   -> <<"Base", "object">>
      [] c = "A"      -> <<"A", "object">>
      [] c = "A2"     -> <<"A2", "A", "object">>
      [] c = "B"      -> <<"B", "object">>
      [] c = "C"      -> <<"C", "object">>
      [] c = "V1"     -> <<"V1", "Base", "A", "B", "C", "object">>
      [] c = "V2"     -> <<"V2", "Base", "B", "A2", "A", "object">>
      [] c = "Lone"   -> <<"Lone", "object">>

Range(s) == {s[i] : i \in 1..Len(s)}

\* a function object is identified by the class body that defines it and its name
Funcs == Classes \X Names
\* the functions decorated with @overridable
OverridableFuncs == {<<"Base", n>> : n \in Names}

PrioAttrs == {NoPrio} \cup {<<p>> : p \in (-1)..MaxPrio}
\* what a class body holds under a name: nothing, the overridable function,
\* or a function with or without the 'overrides' and 'priority' attributes
Absent == [kind |-> "absent", overrides |-> FALSE, priority |-> NoPrio]
OverridableDecl == [kind |-> "overridable", overrides |-> FALSE, priority |-> NoPrio]
PlainDecl == [kind |-> "function", overrides |-> FALSE, priority |-> NoPrio]
OverrideDecl(p) == [kind |-> "function", overrides |-> TRUE, priority |-> p]
OverrideDecls == {OverrideDecl(p) : p \in PrioAttrs}

VARIABLES
    attrs,          \* attrs[cls][name]: the class bodies (cls.__dict__)
    objHash,        \* hash(x) of each class object and name string, fixed for the process
    handler_cache,  \* func.handler_cache of the overridable functions
    first_resolved, \* history: <<func, class, handler>> of every scan that stored its choice
    failed,         \* history: <<func, class>> of every scan that raised at line 44
    last,           \* what the last finished wrapper call did
    calls,          \* wrapper calls made
    scans,          \* hierarchy scans made (lines 32-36)
    setattrs,       \* class-body changes made
    thread          \* the wrapper calls in progress, one per thread

\* the state of the resolver
resolverVars ==
    <<attrs, objHash, handler_cache, first_resolved, failed, last, calls, scans, setattrs,
      thread>>

VARIABLES
    permission_classes, \* the one list object GenericBaseView.permission_classes
    users,              \* the rows of the User table, by primary key
    tokens,             \* the rows of the PasswordResetToken table
    request,            \* the last request served and what became of it
    requests,           \* requests received, also the clock read by timezone.now()
    spent,              \* history: the token values a password was reset with
    worker              \* the RequestResetPasswordView posts in progress, one per thread

\* the state of the views and of the database
webVars == <<permission_classes, users, tokens, request, requests, spent, worker>>

vars ==
    <<attrs, objHash, handler_cache, first_resolved, failed, last, calls, scans, setattrs, thread,
      permission_classes, users, tokens, request, requests, spent, worker>>

----------------------------------------------------------------------------
(* Attribute lookup on classes *)

\* hasattr(cls, name): some class of cls's MRO holds the name in its body
hasattr(c, n) == \E i \in 1..Len(mro(c)) : attrs[mro(c)[i]][n] # Absent

\* getattr(cls, name): the function in the first class body of cls's MRO holding it
getattr(c, n) ==
    LET m == mro(c)
        i == CHOOSE k \in 1..Len(m) :
                /\ attrs[m[k]][n] # Absent
                /\ \A j \in 1..(k - 1) : attrs[m[j]][n] = Absent
    IN  <<m[i], n>>

\* the attributes of a function object
decl(f) == attrs[f[1]][f[2]]

\* mutant: only functions that also carry a 'priority' attribute count as flagged
has_overrides_and_priority(f) == decl(f).overrides /\ decl(f).priority # NoPrio

\* hasattr(f, 'overrides')
has_overrides(f) == decl(f).overrides

\* getattr(x, 'priority', 1)
priority(f) == IF decl(f).priority = NoPrio THEN 1 ELSE decl(f).priority[1]

----------------------------------------------------------------------------
(* The cache key *)

HashMod == 2 ^ HashBits

\* hash() of a tuple: the items' hashes folded into one fixed-width integer
RECURSIVE HashLanes(_, _)
HashLanes(acc, lanes) ==
    IF lanes = <<>> THEN acc
    ELSE HashLanes(((acc + Head(lanes) * 7) * 13) % HashMod, Tail(lanes))

TupleHash(items) ==
    (HashLanes(1, [i \in 1..Len(items) |-> objHash[items[i]]]) + Len(items)) % HashMod

\* cache_key = hash(mro + (func.__name__,))
cache_key(c, f) == TupleHash(Append(mro(c), f[2]))

\* mutant: one cache shared by all overridable functions, keyed by the MRO alone
SlotShared(f, c) == <<<<"Base", "get_serializer_context">>, TupleHash(mro(c))>>

\* the place func.handler_cache[cache_key] of an overridable function func
Slot(f, c) == <<f, cache_key(c, f)>>

\* func.handler_cache.get(cache_key, None)
cache_get(f, c) ==
    IF Slot(f, c) \in DOMAIN handler_cache THEN handler_cache[Slot(f, c)] ELSE None

\* mutant: the lookup reserves the place with the decorated function
\* (setdefault(cache_key, func) in place of get)
cache_after_setdefault(cache, f, c) ==
    [s \in DOMAIN cache \cup {Slot(f, c)} |-> IF s \in DOMAIN cache THEN cache[s] ELSE f]

\* the dictionary after line 28: get() leaves it as it was
cache_after_get(cache, f, c) == cache

\* mutant: the choice is not stored
cache_put_dropped(cache, f, c, h) == cache

\* mutant: the dictionary is replaced by one holding the new entry alone
cache_put_alone(cache, f, c, h) == [s \in {Slot(f, c)} |-> h]

\* func.handler_cache[cache_key] = handler
cache_put(cache, f, c, h) ==
    [s \in DOMAIN cache \cup {Slot(f, c)} |-> IF s = Slot(f, c) THEN h ELSE cache[s]]

----------------------------------------------------------------------------
(* The scan of the hierarchy *)

\* {getattr(cls, func.__name__) for cls in mro if hasattr(cls, func.__name__)}
candidates(c, f) ==
    {getattr(mro(c)[i], f[2]) : i \in {k \in 1..Len(mro(c)) : hasattr(mro(c)[k], f[2])}}

\* mutant: every identically named function counts, flagged or not
overriding_unfiltered(c, f) == candidates(c, f)

\* {f for f in candidates if hasattr(f, 'overrides')}
overriding(c, f) == {g \in candidates(c, f) : has_overrides(g)}

Perms(S) ==
    {s \in [1..Cardinality(S) -> S] : \A i, j \in 1..Cardinality(S) : i # j => s[i] # s[j]}

\* mutant: reverse=True forgotten
sorted_ascending(S) ==
    {s \in Perms(S) : \A i, j \in 1..Len(s) : i < j => priority(s[i]) <= priority(s[j])}

\* sorted(S, key=priority, reverse=True): a set has no order of its own, so
\* functions of equal priority come out in any order
sorted(S) ==
    {s \in Perms(S) : \A i, j \in 1..Len(s) : i < j => priority(s[i]) >= priority(s[j])}

\* the places of the MRO whose class exposes a flagged function of f's name
flagged_places(c, f) ==
    {k \in 1..Len(mro(c)) : hasattr(mro(c)[k], f[2]) /\ has_overrides(getattr(mro(c)[k], f[2]))}

\* mutant: the flagged functions are taken in MRO order and not sorted
handlers_in_mro_order(c, f) ==
    {[i \in 1..Cardinality(overriding(c, f)) |->
        getattr(mro(c)[CHOOSE k \in flagged_places(c, f) :
            /\ \A j \in flagged_places(c, f) : j < k => getattr(mro(c)[j], f[2]) # getattr(mro(c)[k], f[2])
            /\ Cardinality({getattr(mro(c)[j], f[2]) : j \in {m \in flagged_places(c, f) : m <= k}}) = i],
            f[2])]}

\* mutant: the functions are collected in a list, one per class exposing one,
\* so a function inherited by a subclass is collected twice
handlers_with_duplicates(c, f) ==
    {[i \in 1..Cardinality(flagged_places(c, f)) |-> getattr(mro(c)[p[i]], f[2])] :
        p \in {q \in Perms(flagged_places(c, f)) :
                  \A i, j \in 1..Cardinality(flagged_places(c, f)) :
                      i < j => priority(getattr(mro(c)[q[i]], f[2])) >= priority(getattr(mro(c)[q[j]], f[2]))}}

\* the possible values of `handlers` (line 35)
handlers_of(c, f) == sorted(overriding(c, f))

\* mutant: the comparison is made only when there are more than two handlers
ambiguous_above_two(handlers) ==
    /\ Len(handlers) > 2
    /\ priority(handlers[1]) = priority(handlers[2])

\* mutant: any two neighbours of equal priority count as a tie
ambiguous_any_pair(handlers) ==
    \E i \in 1..(Len(handlers) - 1) : priority(handlers[i]) = priority(handlers[i + 1])

\* lines 38-42: the two first handlers have the same priority
ambiguous(handlers) ==
    /\ Len(handlers) >= 2
    /\ priority(handlers[1]) = priority(handlers[2])

\* mutant: no fallback to the decorated function
chosen_without_fallback(handlers, f) == IF handlers # <<>> THEN handlers[1] ELSE None

\* line 48: handler = handlers[0] if handlers else func
chosen(handlers, f) == IF handlers # <<>> THEN handlers[1] ELSE f

----------------------------------------------------------------------------
(* The users application: the rows of its tables and what a request carries *)

\* users/models.py: the two values of User.activation_status
STATUS_INVITED == "invited"
STATUS_ACCEPTED == "accepted"

\* primary keys the User table may hold; uuid4() gives each row a value of its own,
\* which is modelled by the primary key
UserIds == {1, 2}
\* request.user of a request that carries no credentials
AnonymousUser == 0
\* the permissions the views name
Permissions == {"users.add_user", "users.change_user", "users.delete_user", "users.view_user"}
\* a key the request's data does not hold
Missing == "<missing>"
\* the password of a row that was never given one
NoPassword == "<unusable>"

\* what two people type into the forms
Ann ==
    [username |-> "ann", email |-> "ann@shop.io", first_name |-> "Ann", last_name |-> "Lee",
     password |-> "pw-ann"]
Bob ==
    [username |-> "bob", email |-> "bob@shop.io", first_name |-> "Bob", last_name |-> "Ray",
     password |-> "pw-bob"]
\* the same data with one key left out
Without(d, k) == [d EXCEPT ![k] = Missing]
FormData == {Ann, Bob, Without(Bob, "last_name"), Without(Ann, "email")}

\* a row of User
UserRow(d, active, status, joined, perms) ==
    [username |-> d.username, email |-> d.email,
     first_name |-> d.first_name, last_name |-> d.last_name, password |-> d.password,
     is_active |-> active, activation_status |-> status, date_joined |-> joined,
     perms |-> perms]

\* a row of PasswordResetToken: token is the unique random string, expired tells
\* whether created_at lies more than 48 hours back (is_expired)
TokenRow(u, t) == [user |-> u, token |-> t, expired |-> FALSE]

\* the rows of PasswordResetToken.objects.filter(user=u)
tokens_of(u) == {r \in tokens : r.user = u}

\* User.objects.filter(email=e), as primary keys
users_with_email(e) == {u \in DOMAIN users : users[u].email = e}
users_with_username(n) == {u \in DOMAIN users : users[u].username = n}

\* what is kept of a request: who asked what of which view, whether the permission
\* check let it pass, whether the handler's body ran, the steps dispatch took, the
\* response's status
Served(v, m, u, target, token, permitted, ran, trace, status) ==
    [view |-> v, method |-> m, user |-> u, target |-> target, token |-> token,
     permitted |-> permitted, ran |-> ran, trace |-> trace, status |-> status]

\* no request has been served
NoRequest == Served("none", "none", AnonymousUser, 0, 0, FALSE, FALSE, <<>>, 0)

\* a thread that serves no RequestResetPasswordView post
NoPost == [pc |-> "idle", user |-> 0, no |-> 0]

\* no row, no request, and GenericBaseView.permission_classes as the class body
\* creates it (view_mixins.py line 42)
NoWeb ==
    /\ permission_classes = <<"IsAuthenticated">>
    /\ users = <<>>
    /\ tokens = {}
    /\ request = NoRequest
    /\ requests = 0
    /\ spent = {}
    /\ worker = [t \in 1..NumThreads |-> NoPost]

----------------------------------------------------------------------------
(* Initial states *)

Threads == 1..NumThreads

\* what a class body may hold under a name when the classes are created
Bodies(c, n) ==
    CASE c = "Base" -> {OverridableDecl}
      [] c \in {"A", "B"} /\ n = "get_serializer_context" ->
            {Absent, PlainDecl} \cup OverrideDecls
      [] c = "C" /\ n = "get_serializer_context" -> {Absent} \cup OverrideDecls
      [] c = "A" /\ n = "update_permission_classes" -> {Absent, OverrideDecl(NoPrio)}
      [] OTHER -> {Absent}

ClassBodies ==
    LET free == {x \in Classes \X Names : Cardinality(Bodies(x[1], x[2])) > 1}
        picks == {m \in [free -> {Absent, PlainDecl} \cup OverrideDecls] :
                     \A x \in free : m[x] \in Bodies(x[1], x[2])}
    IN  {[c \in Classes |-> [n \in Names |->
            IF <<c, n>> \in free THEN m[<<c, n>>]
            ELSE CHOOSE d \in Bodies(c, n) : TRUE]] : m \in picks}

\* hash values under which the instance classes' keys differ pairwise
DistinctHash ==
    [x \in Classes \cup Names |->
        CASE x = "object" -> 1 [] x = "Base" -> 2 [] x = "A" -> 3 [] x = "A2" -> 4
          [] x = "B" -> 5 [] x = "C" -> 6 [] x = "V1" -> 7 [] x = "V2" -> 8
          [] x = "Lone" -> 9 [] x = "get_serializer_context" -> 10
          [] x = "update_permission_classes" -> 11]

NoCall ==
    [func |-> None, cls |-> NoClass, outcome |-> "none", handler |-> None,
     named |-> {}, scanned |-> FALSE]

Idle == [pc |-> "idle", func |-> None, cls |-> NoClass, handlers |-> <<>>, handler |-> None]

\* nothing has been called yet
Fresh0 ==
    /\ handler_cache = <<>>
    /\ first_resolved = {}
    /\ failed = {}
    /\ last = NoCall
    /\ calls = 0
    /\ scans = 0
    /\ setattrs = 0
    /\ thread = [t \in Threads |-> Idle]
    /\ NoWeb

Init ==
    /\ attrs \in ClassBodies
    /\ objHash = DistinctHash
    /\ Fresh0

----------------------------------------------------------------------------
(* The wrapper, run from call to return without interleaving (lines 22-53) *)

Returned(f, c, h, scanned) ==
    [func |-> f, cls |-> c, outcome |-> "returned", handler |-> h,
     named |-> {}, scanned |-> scanned]

\* line 44: AttributeError naming the two first handlers
Raised(f, c, handlers) ==
    [func |-> f, cls |-> c, outcome |-> "AttributeError", handler |-> None,
     named |-> {handlers[1], handlers[2]}, scanned |-> TRUE]

wrapper(f, c) ==
    /\ calls < MaxCalls
    /\ calls' = calls + 1
    /\ UNCHANGED <<attrs, objHash, setattrs, thread, webVars>>
    /\ IF cache_get(f, c) # None
       THEN \* line 30: a cached handler is called without a scan
            /\ last' = Returned(f, c, cache_get(f, c), FALSE)
            /\ handler_cache' = cache_after_get(handler_cache, f, c)
            /\ UNCHANGED <<first_resolved, failed, scans>>
       ELSE \E handlers \in handlers_of(c, f) :
            /\ scans' = scans + 1
            /\ IF ambiguous(handlers)
               THEN /\ last' = Raised(f, c, handlers)
                    /\ handler_cache' = cache_after_get(handler_cache, f, c)
                    /\ failed' = failed \cup {<<f, c>>}
                    /\ UNCHANGED first_resolved
               ELSE /\ handler_cache' =
                        cache_put(cache_after_get(handler_cache, f, c), f, c, chosen(handlers, f))
                    /\ first_resolved' = first_resolved \cup {<<f, c, chosen(handlers, f)>>}
                    /\ UNCHANGED failed
                    /\ last' = Returned(f, c, chosen(handlers, f), TRUE)

Call == \E f \in OverridableFuncs, c \in InstanceClasses : wrapper(f, c)

Next == Call

\* the classes keep the bodies they were created with, and no two keys collide
Spec == Init /\ [][Next]_vars

----------------------------------------------------------------------------
(* Class bodies changed at run time *)

\* setattr(cls, name, function) where the class had none, or delattr(cls, name)
\* of a flagged function: the next getattr (line 32) sees the new body
SetAttr(c, n, d) ==
    /\ setattrs < MaxSetAttrs
    /\ d \in Bodies(c, n)
    /\ \/ attrs[c][n] = Absent /\ d \in OverrideDecls
       \/ attrs[c][n].overrides /\ d = Absent
    /\ attrs' = [attrs EXCEPT ![c][n] = d]
    /\ setattrs' = setattrs + 1
    /\ UNCHANGED <<objHash, handler_cache, first_resolved, failed, last, calls, scans, thread,
                   webVars>>

ChangeClass == \E c \in Mixins, n \in Names, d \in {Absent} \cup OverrideDecls : SetAttr(c, n, d)

\* fewer bodies to start from: C and the second operation are added later, if at all
FewBodies ==
    /\ attrs["C"]["get_serializer_context"] = Absent
    /\ attrs["A"]["update_permission_classes"] = Absent

InitFew == Init /\ FewBodies

NextDyn == Call \/ ChangeClass

SpecDyn == InitFew /\ [][NextDyn]_vars

----------------------------------------------------------------------------
(* Hash values as the process happens to have them *)

\* hash(cls) derives from the address of the class object: V2 may have any
\* value no other class has
InitHash ==
    /\ attrs \in ClassBodies
    /\ FewBodies
    /\ \E h \in 0..(HashMod - 1) :
          /\ \A x \in Classes \ {"V2"} : DistinctHash[x] # h
          /\ objHash = [DistinctHash EXCEPT !["V2"] = h]
    /\ Fresh0

SpecHash == InitHash /\ [][Next]_vars

----------------------------------------------------------------------------
(* The wrapper run by several threads: the interpreter switches threads *)
(* between the dictionary operations of lines 28 and 50                  *)

Running(t, pc) == thread[t].pc = pc

ThreadFrame == UNCHANGED <<attrs, objHash, last, calls, setattrs, webVars>>

\* lines 24-30: the key is computed and the cache is read
Begin(t, f, c) ==
    /\ Running(t, "idle")
    /\ thread' = [thread EXCEPT ![t] =
            [pc |-> IF cache_get(f, c) # None THEN "call" ELSE "scan",
             func |-> f, cls |-> c, handlers |-> <<>>, handler |-> cache_get(f, c)]]
    /\ handler_cache' = cache_after_get(handler_cache, f, c)
    /\ UNCHANGED <<first_resolved, failed, scans>>
    /\ ThreadFrame

\* lines 32-48: the scan, the comparison of the two first handlers, the choice
Scan(t) ==
    /\ Running(t, "scan")
    /\ \E handlers \in handlers_of(thread[t].cls, thread[t].func) :
          /\ thread' = [thread EXCEPT ![t].handlers = handlers,
                           ![t].pc = IF ambiguous(handlers) THEN "raised" ELSE "store",
                           ![t].handler = IF ambiguous(handlers) THEN None
                                          ELSE chosen(handlers, thread[t].func)]
          /\ failed' = IF ambiguous(handlers)
                       THEN failed \cup {<<thread[t].func, thread[t].cls>>} ELSE failed
    /\ scans' = scans + 1
    /\ UNCHANGED <<handler_cache, first_resolved>>
    /\ ThreadFrame

\* line 50: func.handler_cache[cache_key] = handler
Store(t) ==
    /\ Running(t, "store")
    /\ handler_cache' = cache_put(handler_cache, thread[t].func, thread[t].cls, thread[t].handler)
    /\ first_resolved' = first_resolved \cup {<<thread[t].func, thread[t].cls, thread[t].handler>>}
    /\ thread' = [thread EXCEPT ![t].pc = "call"]
    /\ UNCHANGED <<failed, scans>>
    /\ ThreadFrame

\* line 53: the handler is called and its result returned
Invoke(t) ==
    /\ Running(t, "call")
    /\ thread' = [thread EXCEPT ![t].pc = "returned"]
    /\ UNCHANGED <<handler_cache, first_resolved, failed, scans>>
    /\ ThreadFrame

\* the views that serve requests concurrently
ServingClasses == {"V1", "V2"}

ThreadBegin == \E t \in Threads, f \in OverridableFuncs, c \in ServingClasses : Begin(t, f, c)
ThreadScan == \E t \in Threads : Scan(t)
ThreadStore == \E t \in Threads : Store(t)
ThreadInvoke == \E t \in Threads : Invoke(t)

NextConc == ThreadBegin \/ ThreadScan \/ ThreadStore \/ ThreadInvoke

SpecConc == InitFew /\ [][NextConc]_vars

----------------------------------------------------------------------------
(* GenericBaseView (utilities/view_mixins.py) and the views derived from it *)

\* the views that read self.permission_classes from GenericBaseView's class body:
\* GenericBaseView stands for a view that keeps the defaults of lines 42-44,
\* RequestResetPasswordView sets requires_authentication = False (users/views.py 127)
GenericViews == {"GenericBaseView", "RequestResetPasswordView"}
requires_authentication(v) == v # "RequestResetPasswordView"

\* list.remove(x): the list without the first x
list_remove(l, x) ==
    LET i == CHOOSE k \in 1..Len(l) : l[k] = x /\ \A j \in 1..(k - 1) : l[j] # x
    IN  SubSeq(l, 1, i - 1) \o SubSeq(l, i + 1, Len(l))

\* lines 66-69, on the list self.permission_classes evaluates to
update_permission_classes(v, pcs) ==
    IF ~requires_authentication(v) /\ "IsAuthenticated" \in Range(pcs)
    THEN list_remove(pcs, "IsAuthenticated")
    ELSE pcs

\* APIView.check_permissions over the list left by line 180: IsAuthenticated
\* lets a request pass when it carries a user
has_permission(pc, u) == pc = "IsAuthenticated" => u # AnonymousUser
check_permissions(pcs, u) == \A i \in 1..Len(pcs) : has_permission(pcs[i], u)

\* lines 86-93: the handler named after the method, or http_method_not_allowed
get_handler(v, m) ==
    IF v = "RequestResetPasswordView" /\ m = "post" THEN "post" ELSE "http_method_not_allowed"

\* lines 119-130: the steps dispatch takes when initial lets the request pass or
\* raises, and when the handler raises
dispatch_handler_anyway(permitted, handler_raises) ==
    <<"initial", "get_handler", "process_handler", "finalize_response">>
dispatch(permitted, handler_raises) ==
    (IF ~permitted THEN <<"initial", "handle_exception">>
     ELSE IF handler_raises THEN <<"initial", "get_handler", "process_handler", "handle_exception">>
     ELSE <<"initial", "get_handler", "process_handler">>)
    \o <<"finalize_response">>

\* the statuses of NotAuthenticated and PermissionDenied: which of them the
\* permission check raises depends on the authenticators of the settings
DeniedStatuses == {401, 403}

\* users/views.py lines 146 and 147: two statements, each of its own
delete_tokens(rows, u) == rows \ {r \in rows : r.user = u}
create_token(rows, u, t) == rows \cup {TokenRow(u, t)}

\* RequestResetPasswordView.post (lines 129-158) for the e-mail address e, as
\* <<tokens, status>>; get_random_string gives a value no token held before,
\* modelled by the number of the request
request_reset_post(e, no) ==
    IF e = Missing THEN <<tokens, 400>>
    ELSE IF users_with_email(e) = {} THEN <<tokens, 404>>
    ELSE LET u == CHOOSE x \in users_with_email(e) : TRUE
         IN  <<create_token(delete_tokens(tokens, u), u, no), 200>>

\* a request to a view derived from GenericBaseView, served from dispatch to return
GenericRequest(v, m, u, e) ==
    /\ requests < MaxRequests
    /\ requests' = requests + 1
    /\ permission_classes' = update_permission_classes(v, permission_classes)
    /\ LET permitted == check_permissions(permission_classes', u)
           handler == get_handler(v, m)
           steps == dispatch(permitted, handler = "http_method_not_allowed")
           ran == "process_handler" \in Range(steps)
           post == request_reset_post(e, requests')
       IN  /\ tokens' = IF ran /\ handler = "post" THEN post[1] ELSE tokens
           /\ \E denied \in (IF permitted THEN {405} ELSE DeniedStatuses) :
                request' = Served(v, m, u, 0, 0, permitted, ran, steps,
                                  IF ~permitted THEN denied
                                  ELSE IF handler = "post" THEN post[2] ELSE 405)
    /\ UNCHANGED <<users, spent, worker, resolverVars>>

----------------------------------------------------------------------------
(* The views of users/views.py that derive from APIView, and their serializers *)

\* user.has_perm(p): an active user who was granted p; AnonymousUser has none
has_perm(u, p) == u \in DOMAIN users /\ users[u].is_active /\ p \in users[u].perms

\* decorators.py lines 60-76: whether _decorator calls the wrapped handler for
\* the user of the request; it raises PermissionDenied (403) otherwise
access_permissions_for_all(u, permission) == TRUE
access_permissions(u, permission) == has_perm(u, permission)

\* the unique constraints of username and email, as the ModelSerializer checks
\* them for the row 'id' (0 for a row to be created)
unique_for(id, d) ==
    /\ d.email # Missing => users_with_email(d.email) \subseteq {id}
    /\ d.username # Missing => users_with_username(d.username) \subseteq {id}

\* ModelSerializer.update with partial=True: the keys of 'fields' the data holds
UserFields == {"username", "email", "first_name", "last_name"}
update_fields(row, d, fields) ==
    [k \in DOMAIN row |-> IF k \in fields /\ d[k] # Missing THEN d[k] ELSE row[k]]

\* serializers.py lines 67-71 after validate (lines 59-65): the row of an invited
\* user; the random suffix gives each row a username of its own
dummy_username(id) == IF id = 1 THEN "_k3f9" ELSE "_q7za"
invited_row(id, e) ==
    UserRow([username |-> dummy_username(id), email |-> e, first_name |-> "",
             last_name |-> "", password |-> NoPassword],
            FALSE, STATUS_INVITED, 0, {})

\* users/views.py line 78: the link of a user who accepted is not served
link_never_used(row) == FALSE
link_is_used(row) == row.activation_status = STATUS_ACCEPTED

\* serializers.py lines 95-111: every key of Meta.fields is asked for
ActivationFields == {"username", "email", "password", "first_name", "last_name"}
activation_complete(d) == \A k \in ActivationFields : d[k] # Missing
activated_row(row, d, now) ==
    [row EXCEPT !.email = d.email, !.username = d.username, !.first_name = d.first_name,
                !.last_name = d.last_name, !.password = d.password, !.is_active = TRUE,
                !.activation_status = STATUS_ACCEPTED, !.date_joined = now]

\* ActivateUserView.patch (lines 73-86) as <<users, status>>; 'valid' tells
\* whether the fields pass the validators of the framework
activate_patch(token, d, valid, now) ==
    IF token = 0 THEN <<users, 400>>
    ELSE IF token \notin DOMAIN users THEN <<users, 404>>
    ELSE IF link_is_used(users[token]) THEN <<users, 400>>
    ELSE IF ~valid \/ ~unique_for(token, d) \/ ~activation_complete(d) THEN <<users, 400>>
    ELSE <<[users EXCEPT ![token] = activated_row(users[token], d, now)], 200>>

\* UserDeserializer on the row 'id' (lines 74-85), as <<users, status>>
user_patch(id, d) ==
    IF id \notin DOMAIN users THEN <<users, 404>>
    ELSE IF ~unique_for(id, d) THEN <<users, 400>>
    ELSE <<[users EXCEPT ![id] = update_fields(users[id], d, UserFields)], 200>>

\* UsersDetailView.delete (lines 112-119), as <<users, status>>
user_delete(id) ==
    IF id \notin DOMAIN users THEN <<users, 404>>
    ELSE <<[users EXCEPT ![id].is_active = FALSE], 204>>

\* CreateBasicUserView.post (lines 46-56), as <<users, status>>, 'id' being the
\* primary key the database gives the row
create_post(id, e, valid) ==
    IF e = Missing \/ ~valid \/ users_with_email(e) # {} THEN <<users, 400>>
    ELSE <<[u \in DOMAIN users \cup {id} |-> IF u = id THEN invited_row(id, e) ELSE users[u]],
           201>>

\* WebResetPasswordDeserializer.validate_token (lines 182-192): the row the value
\* names, when there is one and it is not expired; an expired row is deleted
token_rows(value) == {r \in tokens : r.token = value}
token_valid(value) == \E r \in token_rows(value) : ~r.expired
tokens_after_validate(value) == tokens \ {r \in token_rows(value) : r.expired}

\* WebResetPasswordDeserializer.create (lines 201-211): the password is set,
\* then the token row is deleted
reset_create_keeps_token(rows, r) == rows
reset_create_tokens(rows, r) == rows \ {r}

\* ResetPasswordView.post (lines 167-178), as <<users, tokens, status>>
reset_post(value, password, valid) ==
    IF ~valid \/ ~token_valid(value) THEN <<users, tokens_after_validate(value), 400>>
    ELSE LET r == CHOOSE x \in token_rows(value) : TRUE
         IN  <<[users EXCEPT ![r.user].password = password],
               reset_create_tokens(tokens, r), 200>>

\* ChangePasswordView.patch (lines 191-215), as <<users, status>>
change_password(u, old, new) ==
    IF users[u].password # old THEN <<users, 400>>
    ELSE <<[users EXCEPT ![u].password = new], 200>>

----------------------------------------------------------------------------
(* Requests served one at a time *)

\* who may send a request, which rows it may name, what it may carry
Requesters == DOMAIN users \cup {AnonymousUser}
Targets == UserIds \cup {0}
EmailsSent == {Ann.email, Bob.email, Missing}
PasswordsSent == {Ann.password, Bob.password}
TokensSent == 0..MaxRequests

\* a request to a view derived from APIView took its turn: the response r, the
\* tables as the handler leaves them
Respond(r, us, toks) ==
    /\ requests < MaxRequests
    /\ requests' = requests + 1
    /\ request' = r
    /\ users' = us
    /\ tokens' = toks
    /\ spent' = IF r.view = "ResetPasswordView" /\ r.status = 200 THEN spent \cup {r.token}
                ELSE spent
    /\ UNCHANGED <<permission_classes, worker, resolverVars>>

\* a handler wrapped with access_permissions(p): PermissionDenied, or the handler's result
Guarded(v, m, u, target, p, result) ==
    IF access_permissions(u, p)
    THEN Respond(Served(v, m, u, target, 0, TRUE, TRUE, <<>>, result[2]), result[1], tokens)
    ELSE Respond(Served(v, m, u, target, 0, TRUE, FALSE, <<>>, 403), users, tokens)

CreateBasicUserPost ==
    \E u \in Requesters, id \in UserIds \ DOMAIN users, e \in EmailsSent, valid \in BOOLEAN :
        /\ \A j \in UserIds \ DOMAIN users : id <= j
        /\ Guarded("CreateBasicUserView", "post", u, id, "users.add_user",
                   create_post(id, e, valid))

UsersDetailGet ==
    \E u \in Requesters, id \in Targets :
        Guarded("UsersDetailView", "get", u, id, "users.view_user",
                <<users, IF id \in DOMAIN users \cup {0} THEN 200 ELSE 500>>)

UsersDetailPatch ==
    \E u \in Requesters, id \in Targets, d \in FormData :
        Guarded("UsersDetailView", "patch", u, id, "users.change_user", user_patch(id, d))

UsersDetailDelete ==
    \E u \in Requesters, id \in Targets :
        Guarded("UsersDetailView", "delete", u, id, "users.delete_user", user_delete(id))

\* ActivateUserView lets every request pass (AllowAny); who sends it is of no
\* account, and so it is for ResetPasswordView
ActivateUserPatch ==
    \E token \in Targets, d \in FormData, valid \in BOOLEAN :
        LET result == activate_patch(token, d, valid, requests + 1)
        IN  Respond(Served("ActivateUserView", "patch", AnonymousUser, token, token, TRUE, TRUE,
                           <<>>, result[2]),
                    result[1], tokens)

\* CurrentUsersDetailView and ChangePasswordView ask for IsAuthenticated
CurrentUserPatch ==
    \E u \in Requesters, d \in FormData :
        LET result == IF u = AnonymousUser THEN <<users, 401>> ELSE user_patch(u, d)
        IN  Respond(Served("CurrentUsersDetailView", "patch", u, u, 0,
                           u # AnonymousUser, u # AnonymousUser, <<>>, result[2]),
                    result[1], tokens)

ChangePasswordPatch ==
    \E u \in Requesters, old \in PasswordsSent, new \in PasswordsSent :
        LET result == IF u = AnonymousUser THEN <<users, 401>>
                      ELSE change_password(u, old, new)
        IN  Respond(Served("ChangePasswordView", "patch", u, u, 0,
                           u # AnonymousUser, u # AnonymousUser, <<>>, result[2]),
                    result[1], tokens)

ResetPasswordPost ==
    \E value \in TokensSent, password \in PasswordsSent, valid \in BOOLEAN :
        LET result == reset_post(value, password, valid)
        IN  Respond(Served("ResetPasswordView", "post", AnonymousUser, 0, value, TRUE, TRUE,
                           <<>>, result[3]),
                    result[1], result[2])

GenericViewRequest ==
    \E v \in GenericViews, m \in {"get", "post"}, u \in Requesters :
        \E e \in IF get_handler(v, m) = "post" THEN EmailsSent ELSE {Missing} :
            GenericRequest(v, m, u, e)

\* 48 hours pass since the row r was created: r and the rows created before it
\* are expired from now on
Elapse ==
    \E r \in tokens :
        /\ ~r.expired
        /\ tokens' = {[x EXCEPT !.expired = x.expired \/ x.token <= r.token] : x \in tokens}
        /\ UNCHANGED <<permission_classes, users, request, requests, spent, worker,
                       resolverVars>>

\* the rows the tables hold when the first request arrives: Ann, who accepted and
\* holds some permissions, and maybe Bob, who was invited
PermSets ==
    {{}, {"users.add_user"}, {"users.change_user", "users.delete_user", "users.view_user"},
     Permissions}
InitialUsers ==
    {[u \in {1} |-> UserRow(Ann, TRUE, STATUS_ACCEPTED, 0, ps)] : ps \in PermSets} \cup
    {[u \in UserIds |-> IF u = 1 THEN UserRow(Ann, TRUE, STATUS_ACCEPTED, 0, ps)
                        ELSE invited_row(u, Bob.email)] : ps \in PermSets}

\* the classes as this repository declares them: no class overrides an operation
PlainBodies ==
    [c \in Classes |-> [n \in Names |-> IF c = "Base" THEN OverridableDecl ELSE Absent]]

InitWeb ==
    /\ attrs = PlainBodies
    /\ objHash = DistinctHash
    /\ handler_cache = <<>>
    /\ first_resolved = {}
    /\ failed = {}
    /\ last = NoCall
    /\ calls = 0
    /\ scans = 0
    /\ setattrs = 0
    /\ thread = [t \in Threads |-> Idle]
    /\ permission_classes = <<"IsAuthenticated">>
    /\ users \in InitialUsers
    /\ tokens = {}
    /\ request = NoRequest
    /\ requests = 0
    /\ spent = {}
    /\ worker = [t \in Threads |-> NoPost]

NextWeb ==
    \/ CreateBasicUserPost
    \/ UsersDetailGet
    \/ UsersDetailPatch
    \/ UsersDetailDelete
    \/ ActivateUserPatch
    \/ CurrentUserPatch
    \/ ChangePasswordPatch
    \/ ResetPasswordPost
    \/ GenericViewRequest
    \/ Elapse

\* the views serve one request after the other
SpecWeb == InitWeb /\ [][NextWeb]_vars

----------------------------------------------------------------------------
(* RequestResetPasswordView.post served by several threads: each statement *)
(* of lines 146 and 147 is a transaction of its own, and the server may    *)
(* run the statements of two requests in any order                         *)

Posting(t) == worker[t].pc # "idle"

\* what the concurrent posts leave alone
PostFrame == UNCHANGED <<users, spent, resolverVars>>

\* dispatch up to line 145: the permission check, which lets every request pass
\* once line 69 took IsAuthenticated away, and the look-up of the user
PostBegin(t, e) ==
    /\ ~Posting(t)
    /\ requests < MaxRequests
    /\ requests' = requests + 1
    /\ permission_classes' = update_permission_classes("RequestResetPasswordView",
                                                       permission_classes)
    /\ IF e = Missing \/ users_with_email(e) = {}
       THEN /\ request' = Served("RequestResetPasswordView", "post", AnonymousUser, 0, 0, TRUE,
                                 TRUE, dispatch(TRUE, FALSE), request_reset_post(e, 0)[2])
            /\ UNCHANGED worker
       ELSE /\ worker' = [worker EXCEPT ![t] =
                            [pc |-> "delete", user |-> CHOOSE x \in users_with_email(e) : TRUE,
                             no |-> requests']]
            /\ UNCHANGED request
    /\ UNCHANGED tokens
    /\ PostFrame

\* line 146
PostDelete(t) ==
    /\ worker[t].pc = "delete"
    /\ tokens' = delete_tokens(tokens, worker[t].user)
    /\ worker' = [worker EXCEPT ![t].pc = "create"]
    /\ UNCHANGED <<permission_classes, request, requests>>
    /\ PostFrame

\* line 147 and the response
PostCreate(t) ==
    /\ worker[t].pc = "create"
    /\ tokens' = create_token(tokens, worker[t].user, worker[t].no)
    /\ worker' = [worker EXCEPT ![t] = NoPost]
    /\ request' = Served("RequestResetPasswordView", "post", AnonymousUser, worker[t].user,
                         worker[t].no, TRUE, TRUE, dispatch(TRUE, FALSE), 200)
    /\ UNCHANGED <<permission_classes, requests>>
    /\ PostFrame

WorkerBegin == \E t \in Threads, e \in EmailsSent : PostBegin(t, e)
WorkerDelete == \E t \in Threads : PostDelete(t)
WorkerCreate == \E t \in Threads : PostCreate(t)

NextWebConc == WorkerBegin \/ WorkerDelete \/ WorkerCreate \/ ResetPasswordPost

\* password-reset requests overlap; a reset is served between their statements
SpecWebConc == InitWeb /\ [][NextWebConc]_vars

----------------------------------------------------------------------------
(* What the claims speak of, read off the class bodies *)

\* the override candidates of operation n in the hierarchy of class c: the
\* functions flagged 'overrides' that a class of the hierarchy defines under n
OverrideCandidates(c, n) ==
    {<<d, n>> : d \in {k \in Range(mro(c)) : attrs[k][n].overrides}}

\* a candidate's priority, 1 when it declares none
PrioOf(g) == IF attrs[g[1]][g[2]].priority = <<>> THEN 1 ELSE attrs[g[1]][g[2]].priority[1]

\* the candidates no other candidate outranks
TopCandidates(c, n) ==
    {g \in OverrideCandidates(c, n) : \A h \in OverrideCandidates(c, n) : PrioOf(h) <= PrioOf(g)}

\* some class of the hierarchy defines operation n, flagged or not
Implemented(c, n) == \E k \in Range(mro(c)) : attrs[k][n].kind # "absent"

Called == last.outcome # "none"
LastName == last.func[2]

\* the keys of the instance classes differ pairwise
KeysDistinct ==
    \A f \in OverridableFuncs : \A c1, c2 \in InstanceClasses :
        c1 # c2 => cache_key(c1, f) # cache_key(c2, f)

----------------------------------------------------------------------------
(* Claims *)

\* C1: when two or more override candidates of the called operation share the
\* highest priority, the call fails with the ambiguity error, which names two
\* of the tied candidates; nothing is returned or invoked.
C1_AmbiguousTieRaises ==
    (Called /\ Cardinality(TopCandidates(last.cls, LastName)) >= 2) =>
        /\ last.outcome = "AttributeError"
        /\ last.handler = None
        /\ Cardinality(last.named) = 2
        /\ last.named \subseteq TopCandidates(last.cls, LastName)

\* a call on V1 found A's and B's overrides tied (one at the default priority,
\* one at an explicit 1) and raised, twice in a row
C1_Witness ==
    /\ calls = 2
    /\ last.cls = "V1"
    /\ last.outcome = "AttributeError"
    /\ last.named = {<<"A", LastName>>, <<"B", LastName>>}
    /\ attrs["A"][LastName].priority = <<>>
    /\ attrs["B"][LastName].priority = <<1>>

\* C2: when the override candidates have a unique highest priority, the call
\* invokes exactly that candidate.
C2_UniqueTopChosen ==
    (Called /\ Cardinality(TopCandidates(last.cls, LastName)) = 1) =>
        /\ last.outcome = "returned"
        /\ last.handler \in TopCandidates(last.cls, LastName)

\* candidates at priorities 2 (B) and 1 (A): B's was invoked
C2_Witness ==
    /\ last.outcome = "returned"
    /\ last.cls = "V1"
    /\ OverrideCandidates("V1", LastName) = {<<"A", LastName>>, <<"B", LastName>>}
    /\ PrioOf(<<"A", LastName>>) = 1
    /\ PrioOf(<<"B", LastName>>) = 2
    /\ last.handler = <<"B", LastName>>

\* C3: when no class of the hierarchy defines a function flagged as an
\* override of the operation, the call runs the decorated function itself.
C3_NoOverrideRunsBase ==
    (Called /\ OverrideCandidates(last.cls, LastName) = {}) =>
        /\ last.outcome = "returned"
        /\ last.handler = last.func

\* V1, whose mixin A defines an unflagged function of that name, ran the base
C3_Witness ==
    /\ last.outcome = "returned"
    /\ last.cls = "V1"
    /\ OverrideCandidates("V1", LastName) = {}
    /\ attrs["A"][LastName] = PlainDecl
    /\ last.handler = last.func

\* C4: with exactly one override candidate, the call invokes that candidate
\* whatever its priority.
C4_SingleCandidateChosen ==
    (Called /\ Cardinality(OverrideCandidates(last.cls, LastName)) = 1) =>
        /\ last.outcome = "returned"
        /\ last.handler \in OverrideCandidates(last.cls, LastName)

\* the single candidate, of negative priority, was invoked
C4_Witness ==
    /\ last.outcome = "returned"
    /\ OverrideCandidates(last.cls, LastName) = {last.handler}
    /\ PrioOf(last.handler) < 0

\* C5: a call for a hierarchy and operation that an earlier call has resolved
\* returns the candidate that call chose, from the cache and without a scan.
C5_SecondCallCached ==
    [][\A r \in first_resolved :
          (calls' = calls + 1 /\ last'.func = r[1] /\ last'.cls = r[2]) =>
              /\ last'.outcome = "returned"
              /\ last'.handler = r[3]
              /\ ~last'.scanned
              /\ scans' = scans]_vars

\* the second of two calls returned B's override from the cache after one scan
C5_Witness ==
    /\ calls = 2
    /\ scans = 1
    /\ last.outcome = "returned"
    /\ ~last.scanned
    /\ last.cls = "V2"
    /\ last.handler = <<"B", LastName>>
    /\ <<last.func, "V2", last.handler>> \in first_resolved

\* C9: resolving one operation never creates, changes or consumes the cache
\* entry of another: entries stored under a function hold implementations of
\* that function's name, a call answered from the cache gets what a scan for
\* the same function and hierarchy stored, and a call of one function leaves
\* the entries of every other function as they were.
C9_Independent ==
    (Called /\ last.outcome = "returned") =>
        /\ last.handler[2] = LastName
        /\ ~last.scanned => <<last.func, last.cls, last.handler>> \in first_resolved

C9_EntriesOfOthersKept ==
    \A s \in DOMAIN handler_cache \cup DOMAIN handler_cache' :
        s[1] # last'.func =>
            /\ s \in DOMAIN handler_cache
            /\ s \in DOMAIN handler_cache'
            /\ handler_cache'[s] = handler_cache[s]

C9_NamesIndependent ==
    /\ [](C9_Independent /\ \A s \in DOMAIN handler_cache : handler_cache[s][2] = s[1][2])
    /\ [][calls' = calls + 1 => C9_EntriesOfOthersKept]_vars

\* both operations were resolved on V1 and their entries hold different choices
C9_Witness ==
    /\ calls = 2
    /\ last.cls = "V1"
    /\ last.func = <<"Base", "update_permission_classes">>
    /\ last.handler = <<"A", "update_permission_classes">>
    /\ cache_get(<<"Base", "get_serializer_context">>, "V1") = <<"C", "get_serializer_context">>
    /\ cache_get(<<"Base", "update_permission_classes">>, "V1") = last.handler

\* C10 as stated: with no implementation of the operation anywhere in the
\* instance's hierarchy, the call fails with MissingOperationError.
C10_MissingOperationRaises ==
    (Called /\ ~Implemented(last.cls, LastName)) =>
        last.outcome = "MissingOperationError"

\* C10 amended: with no implementation of the operation anywhere in the
\* instance's hierarchy, the call raises nothing: it runs the decorated
\* function and caches it as the choice.
C10_MissingRunsDecorated ==
    (Called /\ ~Implemented(last.cls, LastName)) =>
        /\ last.outcome = "returned"
        /\ last.handler = last.func
        /\ cache_get(last.func, last.cls) = last.func

\* the wrapper was called with an instance of Lone, scanned, and ran the base
C10_Witness ==
    /\ last.cls = "Lone"
    /\ ~Implemented("Lone", LastName)
    /\ last.outcome = "returned"
    /\ last.scanned
    /\ last.handler = last.func

\* what an uncached resolution over the class bodies as they are gives
Fresh(f, c, outcome, handler) ==
    LET top == TopCandidates(c, f[2])
    IN  CASE Cardinality(top) >= 2 -> outcome = "AttributeError"
          [] Cardinality(top) = 1 -> outcome = "returned" /\ handler \in top
          [] OTHER -> outcome = "returned" /\ handler = f

\* C6 as stated: once an override candidate has been added to or removed from
\* a class, every later call gives what an uncached resolution over the
\* current class bodies gives.
C6_FreshAfterChange ==
    [][(calls' = calls + 1 /\ setattrs > 0) =>
          Fresh(last'.func, last'.cls, last'.outcome, last'.handler)]_vars

\* C7 as stated: a call answered from the cache gets an entry that a scan of
\* its own hierarchy stored, never the entry of a different hierarchy.
C7_EntryOfOwnHierarchy ==
    (Called /\ last.outcome = "returned" /\ ~last.scanned) =>
        <<last.func, last.cls, last.handler>> \in first_resolved

\* C8: in every interleaving of concurrent calls, each call ends as a single
\* uncached resolution would, and once a call has returned the cache holds,
\* under its key, the candidate it returned.
C8_RaceKeepsResult ==
    \A t \in Threads :
        /\ thread[t].pc \in {"returned", "raised"} =>
              Fresh(thread[t].func, thread[t].cls,
                    IF thread[t].pc = "raised" THEN "AttributeError" ELSE "returned",
                    thread[t].handler)
        /\ thread[t].pc = "returned" =>
              cache_get(thread[t].func, thread[t].cls) = thread[t].handler

\* two threads both missed the cache for V1, both scanned and stored, and both
\* returned B's override, which is what the cache holds
C8_Witness ==
    /\ scans = 2
    /\ \A t \in {1, 2} :
          /\ thread[t].pc = "returned"
          /\ thread[t].cls = "V1"
          /\ thread[t].func = <<"Base", "get_serializer_context">>
          /\ thread[t].handlers # <<>>
          /\ thread[t].handler = <<"B", "get_serializer_context">>
    /\ cache_get(<<"Base", "get_serializer_context">>, "V1") = <<"B", "get_serializer_context">>

\* C11: with A's and B's overrides the only candidates, the choice follows
\* from their priorities alone, whichever of A and B comes first in the MRO:
\* the higher one is invoked, and equal priorities raise the error naming both.
C11_PriorityNotPosition ==
    LET a == <<"A", LastName>>
        b == <<"B", LastName>>
    IN  (Called /\ OverrideCandidates(last.cls, LastName) = {a, b}) =>
            /\ PrioOf(a) < PrioOf(b) => last.outcome = "returned" /\ last.handler = b
            /\ PrioOf(a) > PrioOf(b) => last.outcome = "returned" /\ last.handler = a
            /\ PrioOf(a) = PrioOf(b) =>
                  last.outcome = "AttributeError" /\ last.named = {a, b}

\* on V1, where A precedes B, A=1/B=2 chose B's implementation
C11_Witness ==
    /\ last.cls = "V1"
    /\ OverrideCandidates("V1", LastName) = {<<"A", LastName>>, <<"B", LastName>>}
    /\ attrs["A"][LastName].priority = <<1>>
    /\ attrs["B"][LastName].priority = <<2>>
    /\ last.outcome = "returned"
    /\ last.handler = <<"B", LastName>>

\* C12: with three or more candidates, a unique highest priority and two
\* lower candidates of equal priority, no error is raised and the unique top
\* candidate is invoked.
C12_LowerTieHarmless ==
    LET cands == OverrideCandidates(last.cls, LastName)
        top == TopCandidates(last.cls, LastName)
    IN  (/\ Called
         /\ Cardinality(cands) >= 3
         /\ Cardinality(top) = 1
         /\ \E g, h \in cands \ top : g # h /\ PrioOf(g) = PrioOf(h)) =>
            /\ last.outcome = "returned"
            /\ last.handler \in top

\* C at priority 2 was chosen over A and B, both at priority 1
C12_Witness ==
    /\ last.cls = "V1"
    /\ last.outcome = "returned"
    /\ last.scanned
    /\ last.handler = <<"C", LastName>>
    /\ PrioOf(<<"C", LastName>>) = 2
    /\ attrs["A"][LastName] = OverrideDecl(<<1>>)
    /\ attrs["B"][LastName] = OverrideDecl(NoPrio)

\* C13: an override that several classes of the hierarchy expose (V2 reaches
\* A's function through A2 and through A) is one candidate: when it is the
\* only override, it is invoked and no ambiguity is raised.
C13_InheritedCountsOnce ==
    (Called /\ last.cls = "V2" /\ OverrideCandidates("V2", LastName) = {<<"A", LastName>>}) =>
        /\ last.outcome = "returned"
        /\ last.handler = <<"A", LastName>>

\* V2 scanned, found A's override through A2 and A, and invoked it
C13_Witness ==
    /\ last.cls = "V2"
    /\ last.scanned
    /\ attrs["A"][LastName].overrides
    /\ ~attrs["B"][LastName].overrides
    /\ getattr("A2", LastName) = getattr("A", LastName)
    /\ last.outcome = "returned"
    /\ last.handler = <<"A", LastName>>

\* C14: a call changes the cache at most by adding one entry, under the
\* called function, holding the handler it chose; every entry that exists
\* stays, with the handler it has.
C14_CacheOnlyGrows ==
    [][/\ \A s \in DOMAIN handler_cache :
             s \in DOMAIN handler_cache' /\ handler_cache'[s] = handler_cache[s]
       /\ Cardinality(DOMAIN handler_cache' \ DOMAIN handler_cache) <= 1
       /\ \A s \in DOMAIN handler_cache' \ DOMAIN handler_cache :
             /\ s[1] = last'.func
             /\ handler_cache'[s] = last'.handler
             /\ last'.scanned]_vars

\* a second scan added its entry beside the first call's entry
C14_Witness ==
    /\ calls = 2
    /\ scans = 2
    /\ last.scanned
    /\ last.outcome = "returned"
    /\ Cardinality(DOMAIN handler_cache) = 2
    /\ \E s \in DOMAIN handler_cache : handler_cache[s] # last.handler

\* what the last step served, when it served a request
JustServed(v) == requests' = requests + 1 /\ request'.view = v

\* C15: a view derived from GenericBaseView that keeps requires_authentication =
\* True and the default permission_classes turns away every request without a
\* user, whatever requests the views with requires_authentication = False have
\* served before: IsAuthenticated is among the classes the check runs over.
C15_ProtectedViewRejectsAnonymous ==
    (request.view \in GenericViews /\ requires_authentication(request.view)
        /\ request.user = AnonymousUser)
    => (~request.permitted /\ "IsAuthenticated" \in Range(permission_classes))

\* the permission each wrapped handler names (users/views.py lines 46, 91, 102, 112)
permission_named(v, m) ==
    CASE v = "CreateBasicUserView" -> "users.add_user"
      [] m = "get" -> "users.view_user"
      [] m = "patch" -> "users.change_user"
      [] OTHER -> "users.delete_user"

\* C16: a handler wrapped with access_permissions(p) runs only for a user who has
\* permission p; for any other user the answer is PermissionDenied, the handler
\* does not run and the request of CreateBasicUserView or UsersDetailView creates,
\* changes and deactivates no user.
C16_HandlerOnlyWithPermission ==
    [][\A v \in {"CreateBasicUserView", "UsersDetailView"} :
          JustServed(v) =>
            LET p == permission_named(v, request'.method)
            IN  /\ request'.ran => has_perm(request'.user, p)
                /\ ~has_perm(request'.user, p) =>
                      (~request'.ran /\ request'.status = 403 /\ users' = users)]_vars

\* a user without the permission asked for a deactivation and was refused, and
\* a user with the permission had a row changed
C16_Witness ==
    /\ request.view = "UsersDetailView"
    /\ request.method = "delete"
    /\ request.user \in DOMAIN users
    /\ request.status = 403
    /\ \E u \in DOMAIN users : users[u].username = Bob.username /\ u # request.user

\* C17: an activation link serves once: a PATCH of ActivateUserView that names a
\* user whose activation_status is 'accepted' is refused and leaves that user's
\* e-mail, username, names, password, is_active and date_joined as they were,
\* and no step takes a user from 'accepted' back to 'invited'.
C17_ActivationLinkServesOnce ==
    [][/\ \A u \in DOMAIN users :
            (/\ JustServed("ActivateUserView")
             /\ request'.token = u
             /\ users[u].activation_status = STATUS_ACCEPTED)
            => (request'.status = 400 /\ users'[u] = users[u])
       /\ \A u \in DOMAIN users :
            users[u].activation_status = STATUS_ACCEPTED
            => (u \in DOMAIN users' /\ users'[u].activation_status = STATUS_ACCEPTED)]_vars

\* a user activated the account through the link in an earlier request, and the
\* last request, a PATCH with the same token, was refused
C17_Witness ==
    /\ request.view = "ActivateUserView"
    /\ request.status = 400
    /\ request.token \in DOMAIN users
    /\ users[request.token].activation_status = STATUS_ACCEPTED
    /\ users[request.token].date_joined > 0
    /\ users[request.token].date_joined < requests

\* C18: dispatch of GenericBaseView runs the permission check (initial) before it
\* looks for a handler: when the check raises, neither get_handler nor the
\* handler runs, the tables stay as they were and the response is the one of
\* handle_exception.
C18_CheckBeforeHandler ==
    /\ [](request.view \in GenericViews =>
            /\ request.trace[1] = "initial"
            /\ ~request.permitted =>
                  /\ ~request.ran
                  /\ request.trace = <<"initial", "handle_exception", "finalize_response">>
                  /\ request.status \in DeniedStatuses)
    /\ [][\A v \in GenericViews :
            (JustServed(v) /\ ~request'.permitted) => (users' = users /\ tokens' = tokens)]_vars

\* a request without a user was turned away by the check of a view that asks
\* for authentication
C18_Witness ==
    /\ request.view = "GenericBaseView"
    /\ request.user = AnonymousUser
    /\ ~request.permitted
    /\ request.status \in DeniedStatuses

\* C19: a password-reset token serves once: after a reset that succeeded with
\* it the row is gone, and every later POST of ResetPasswordView with the same
\* value fails validation and leaves the password of every user as it was.
C19_ResetTokenServesOnce ==
    /\ [](\A value \in spent : token_rows(value) = {})
    /\ [][(JustServed("ResetPasswordView") /\ request'.token \in spent)
            => (/\ request'.status = 400
                /\ \A u \in DOMAIN users : users'[u].password = users[u].password)]_vars

\* a password was reset with a token, and the last request, a reset with the
\* same value, failed
C19_Witness ==
    /\ request.view = "ResetPasswordView"
    /\ request.token \in spent
    /\ request.status = 400

\* C20: whatever password-reset requests were served, one after the other or
\* overlapping, a user has at most one PasswordResetToken once they are
\* answered: each request deletes the user's tokens before it creates one.
C20_OneTokenPerUser ==
    (\A t \in Threads : ~Posting(t)) => \A u \in DOMAIN users : Cardinality(tokens_of(u)) <= 1

\* C21: a resolution that ends in the ambiguity error stores nothing: the call
\* leaves handler_cache as it was, no entry stands under the key afterwards, and
\* every later call for the same operation and hierarchy scans again and raises
\* the error again instead of returning a candidate.
C21_FailureStoresNothing ==
    /\ [](\A x \in failed : cache_get(x[1], x[2]) = None)
    /\ [][calls' = calls + 1 =>
            /\ last'.outcome = "AttributeError" => handler_cache' = handler_cache
            /\ <<last'.func, last'.cls>> \in failed =>
                  /\ last'.outcome = "AttributeError"
                  /\ last'.handler = None
                  /\ last'.scanned
                  /\ scans' = scans + 1]_vars

\* the same operation was called twice on the same class; both calls scanned,
\* both raised, and the cache is still empty
C21_Witness ==
    /\ calls = 2
    /\ scans = 2
    /\ last.outcome = "AttributeError"
    /\ failed = {<<last.func, last.cls>>}
    /\ handler_cache = <<>>

====
